---------------------------- MODULE Spec2Model ----------------------------
(***************************************************************************)
(* Model of src/planets/planets.py: the rejection-sampling placement of    *)
(* planets on a tableau (create_random_planet, check_for_collision), the   *)
(* registry (Planets) and the per-planet BehaviorSubject notifications     *)
(* (Planet.subscribe, Planet.set_owner).                                   *)
(*                                                                         *)
(* Objects live in `heap` (reference -> Planet fields); lists and the      *)
(* identity index hold references.  uuid4() is modelled as a token that    *)
(* differs from the id of every object the model still tracks.             *)
(***************************************************************************)
EXTENDS Integers, Sequences, FiniteSets, TLC

VARIABLES
    pc,                 \* position of the program: uninit, home, free, loop, ready, failed
    tableau,            \* Planets.tableau.bottom_right as <<x, y>> (upper_left is (0, 0))
    players,            \* Planets.players (shuffled copy)
    min_distance,       \* Planets.min_distance
    number_of_planets,  \* constructor argument number_of_planets
    player_planet_list, \* Planets.player_planet_list: references
    planet_list,        \* Planets.planet_list: references
    all_planet_dict,    \* Planets.all_planet_dict: id -> reference
    heap,               \* reference -> Planet object fields
    home_planet,        \* Player.home_planet per player ("None" while unset)
    frame,              \* locals of the running create_planet / create_random_planet call
    delivered,          \* observer callbacks invoked by the last operation, in order
    last_op,            \* the last completed operation and its arguments
    rejected_id,        \* id of the last placement candidate that was rejected
    created             \* the planets create_planet has returned so far

vars == <<pc, tableau, players, min_distance, number_of_planets,
          player_planet_list, planet_list, all_planet_dict, heap, home_planet,
          frame, delivered, last_op, rejected_id, created>>

---------------------------------------------------------------------------
(* Bounds of the model *)

MaxPlanets == 2
MaxExtra == 2
MaxSubs == 2

(* Program constants *)

SMALL == 50
MEDIUM == 75
LARGE == 100

\* Python's None: as a player, as an object reference, as an id
None == "None"
NoRef == 0
NoId == 0

PlayerNames == {"Aaron", "Peter"}

Tableaus == {<<20, 20>>, <<100, 100>>}
\* min_distance arguments: 26 is the distance between the two ends of the range
\* of a MEDIUM planet on the 100 x 100 tableau, so a pair at exactly
\* min_distance occurs
MinDistances == {26}

SizeNames == <<"SMALL", "MEDIUM", "LARGE">>

\* PlanetSize: the enum's members and their values
PlanetSize == [SMALL |-> SMALL, MEDIUM |-> MEDIUM, LARGE |-> LARGE]

IsPlanetSize(s) == s \in DOMAIN PlanetSize

\* a planet_size argument: a single value, or a list of values
SizeArg(isList, items) == [is_list |-> isList, items |-> items]

DefaultSizes == SizeArg(TRUE, SizeNames)

\* planet_size arguments passed to create_planet on the constructed registry
SizeArgs ==
    { SizeArg(FALSE, <<"MEDIUM">>), SizeArg(FALSE, <<"BOGUS">>),
      DefaultSizes, SizeArg(TRUE, <<"SMALL", "BOGUS">>) }

\* player lists passed to the constructor (random.shuffle supplies the orders)
PlayerLists == { << >>, <<"Aaron">>, <<"Aaron", "Peter">>, <<"Aaron", "Aaron">> }

---------------------------------------------------------------------------
(* Pure functions *)

\* a variant that lets every list pass
check_planet_size_ListsPass(arg) ==
    ~ arg.is_list /\ ~ IsPlanetSize(arg.items[1])

\* check_planet_size: TRUE when it raises ValueError
check_planet_size(arg) ==
    IF arg.is_list
    THEN ~ \A i \in 1..Len(arg.items) : IsPlanetSize(arg.items[i])
    ELSE ~ IsPlanetSize(arg.items[1])

\* floor(planet_size.value / 2)
Inset(size) == PlanetSize[size] \div 2

\* the closed range random.randint(lo, hi) draws from
RandRange(lo, hi) == lo..hi

\* the draws of random.randint(lo, hi) the model explores: both ends of the range
RandInt(lo, hi) == { v \in RandRange(lo, hi) : v = lo \/ v = hi }

XLo(size) == 0 + Inset(size)
\* a variant that forgets the inset at the far edge
XHi_NoInset(t, size) == t[1]

XHi(t, size) == t[1] - Inset(size)
YLo(size) == 0 + Inset(size)
YHi(t, size) == t[2] - Inset(size)

SqDist(a, b) == (a[1] - b[1]) * (a[1] - b[1]) + (a[2] - b[2]) * (a[2] - b[2])

\* a variant that compares the squared distance with the unsquared threshold
check_for_collision_Unsquared(coordinate, collision_list, md) ==
    \E i \in 1..Len(collision_list) :
        SqDist(coordinate, heap[collision_list[i]].coordinate) < md

\* a variant that also rejects a planet at exactly min_distance
check_for_collision_Inclusive(coordinate, collision_list, md) ==
    \E i \in 1..Len(collision_list) :
        SqDist(coordinate, heap[collision_list[i]].coordinate) <= md * md

\* check_for_collision on a candidate coordinate and a list of references
check_for_collision(coordinate, collision_list, md) ==
    \E i \in 1..Len(collision_list) :
        SqDist(coordinate, heap[collision_list[i]].coordinate) < md * md

\* a variant that lists the free planets first
get_all_planets_FreeFirst == planet_list \o player_planet_list

\* Planets.get_all_planets
get_all_planets == player_planet_list \o planet_list

Range(s) == { s[i] : i \in 1..Len(s) }

Values(f) == { f[k] : k \in DOMAIN f }

MinUnused(used) ==
    CHOOSE n \in 1..(Cardinality(used) + 1) :
        n \notin used /\ \A m \in 1..(n - 1) : m \in used

\* ids carried by the objects the model tracks
UsedIds ==
    (DOMAIN all_planet_dict \cup { heap[r].id : r \in DOMAIN heap } \cup { rejected_id })
    \ { NoId }

\* a variant that hands out one and the same token
uuid4_Fixed == 100 + 1

\* uuid4(): a token no tracked object carries
uuid4 == 100 + MinUnused({ i - 100 : i \in UsedIds })

\* allocation of a new object: a reference no live object has
NewRef == MinUnused(DOMAIN heap)

\* Planet.__init__: the fields of the new object
Planet(coordinate, planet_size, home_player) ==
    [ coordinate  |-> coordinate,
      id          |-> uuid4,
      planet_size |-> planet_size,
      home_player |-> home_player,
      owner       |-> IF home_player # None THEN home_player ELSE None,
      value       |-> NewRef,      \* BehaviorSubject(self): the cached value
      observers   |-> << >> ]      \* BehaviorSubject.observers

\* a variant that keeps the first planet a player was given
set_home_planet_Once(home_player, ref) ==
    IF home_player # None /\ home_planet[home_player] = NoRef
    THEN [home_planet EXCEPT ![home_player] = ref]
    ELSE home_planet

\* Player.set_home_planet, as called by Planet.__init__
set_home_planet(home_player, ref) ==
    IF home_player # None
    THEN [home_planet EXCEPT ![home_player] = ref]
    ELSE home_planet

NoFrame ==
    [ caller |-> "none", offered |-> << >>, planet_size |-> "none",
      home_player |-> None, planet |-> NoRef, collision_list |-> << >> ]

NoOp == [ op |-> "none", ref |-> NoRef, arg |-> None, error |-> "none" ]

Op(op, ref, arg, error) == [ op |-> op, ref |-> ref, arg |-> arg, error |-> error ]

---------------------------------------------------------------------------
(* Initial state: before Planets(...) is called *)

Init ==
    /\ pc = "uninit"
    /\ tableau = <<0, 0>>
    /\ players = << >>
    /\ min_distance = 0
    /\ number_of_planets = 0
    /\ player_planet_list = << >>
    /\ planet_list = << >>
    /\ all_planet_dict = << >>
    /\ heap = << >>
    /\ home_planet = [p \in PlayerNames |-> NoRef]
    /\ frame = NoFrame
    /\ delivered = << >>
    /\ last_op = NoOp
    /\ rejected_id = NoId
    /\ created = {}

\* random.shuffle: any permutation of the list
Shuffles(ps) ==
    { [i \in 1..Len(ps) |-> ps[f[i]]] :
        f \in { g \in [1..Len(ps) -> 1..Len(ps)] :
                    \A i, j \in 1..Len(ps) : i # j => g[i] # g[j] } }

\* where the constructor continues after its lists hold ppl and pl
NextPhase(ps, n, ppl, pl) ==
    IF Len(ppl) < Len(ps) THEN "home"
    ELSE IF Len(pl) < n THEN "free"
    ELSE "ready"

\* Planets.__init__ up to the first create_planet call
Construct(t, ps, n, md) ==
    /\ pc = "uninit"
    /\ Len(ps) + n <= MaxPlanets
    /\ tableau' = t
    /\ \E sh \in Shuffles(ps) : players' = sh
    /\ min_distance' = md
    /\ number_of_planets' = n
    /\ player_planet_list' = << >>
    /\ planet_list' = << >>
    /\ all_planet_dict' = << >>
    /\ pc' = NextPhase(ps, n, << >>, << >>)
    /\ last_op' = Op("Planets", NoRef, None, "none")
    /\ UNCHANGED <<heap, home_planet, frame, delivered, rejected_id, created>>

\* a variant that places a SMALL planet whatever was asked for
Enter_Small(caller, offered, size, home_player) ==
    [ caller |-> caller, offered |-> offered, planet_size |-> "SMALL",
      home_player |-> home_player, planet |-> NoRef,
      collision_list |-> get_all_planets ]

\* entry of create_planet / create_random_planet: the collision list is
\* get_all_planets() at call time; `offered` is the planet_size argument and
\* `size` the value it is resolved to (by random.choice for a list) before the loop
Enter(caller, offered, size, home_player) ==
    [ caller |-> caller, offered |-> offered, planet_size |-> size,
      home_player |-> home_player, planet |-> NoRef,
      collision_list |-> get_all_planets ]

\* for player in self.players: self.create_planet(PlanetSize.MEDIUM, player)
CreateHome ==
    /\ pc = "home"
    /\ frame' = Enter("home", <<"MEDIUM">>, "MEDIUM", players[Len(player_planet_list) + 1])
    /\ pc' = "loop"
    /\ UNCHANGED <<tableau, players, min_distance, number_of_planets,
                   player_planet_list, planet_list, all_planet_dict, heap,
                   home_planet, delivered, last_op, rejected_id, created>>

\* for i in range(number_of_planets): self.create_planet()
CreateFree ==
    /\ pc = "free"
    /\ \E i \in 1..Len(DefaultSizes.items) :
          frame' = Enter("free", DefaultSizes.items, DefaultSizes.items[i], None)
    /\ pc' = "loop"
    /\ UNCHANGED <<tableau, players, min_distance, number_of_planets,
                   player_planet_list, planet_list, all_planet_dict, heap,
                   home_planet, delivered, last_op, rejected_id, created>>

\* create_planet(planet_size, home_player) called on the constructed registry
CreatePlanet(arg, home_player) ==
    /\ pc = "ready"
    /\ Cardinality(DOMAIN all_planet_dict) < MaxPlanets
    /\ Cardinality(DOMAIN all_planet_dict) - Len(get_all_planets) < MaxExtra
    /\ IF check_planet_size(arg)
       THEN /\ last_op' = Op("create_planet", NoRef, None, "ValueError")
            /\ delivered' = << >>
            /\ UNCHANGED <<pc, frame>>
       ELSE /\ \E i \in 1..Len(arg.items) :
                  frame' = Enter("extra", arg.items, arg.items[i], home_player)
            /\ pc' = "loop"
            /\ UNCHANGED <<last_op, delivered>>
    /\ UNCHANGED <<tableau, players, min_distance, number_of_planets,
                   player_planet_list, planet_list, all_planet_dict, heap,
                   home_planet, rejected_id, created>>

\* the while-condition after a candidate was built: TRUE when it is rejected
Rejected(coordinate) ==
    check_for_collision(coordinate, frame.collision_list, min_distance)

\* random.randint raises ValueError on an empty range
EmptyRange(size) ==
    XLo(size) > XHi(tableau, size) \/ YLo(size) > YHi(tableau, size)

\* the heap after Planet(...) is bound to `planet`: the previous candidate,
\* which nothing references any more, is dropped
Rebind(ref, obj) ==
    [r \in (DOMAIN heap \ {frame.planet}) \cup {ref} |->
        IF r = ref THEN obj ELSE heap[r]]

\* a variant that rebinds the dict instead of adding a key
Index_Replace(id, ref) == [i \in {id} |-> ref]

\* self.all_planet_dict[planet.id] = planet
Index(id, ref) ==
    [i \in DOMAIN all_planet_dict \cup {id} |->
        IF i = id THEN ref ELSE all_planet_dict[i]]

\* a variant that inserts at the front of the list
AppendHome_Front(caller, ref) ==
    IF caller = "home" THEN <<ref>> \o player_planet_list ELSE player_planet_list

\* what the caller of create_planet does with the returned planet
AppendHome(caller, ref) ==
    IF caller = "home" THEN Append(player_planet_list, ref) ELSE player_planet_list

AppendFree(caller, ref) ==
    IF caller = "free" THEN Append(planet_list, ref) ELSE planet_list

\* one iteration of the loop of create_random_planet whose draw fails:
\* the exception leaves create_planet, and the constructor when it is the caller
AttemptRaise ==
    /\ pc = "loop"
    /\ EmptyRange(frame.planet_size)
    /\ pc' = IF frame.caller = "extra" THEN "ready" ELSE "failed"
    /\ last_op' = Op(IF frame.caller = "extra" THEN "create_planet" ELSE "Planets",
                     NoRef, None, "ValueError")
    /\ frame' = NoFrame
    /\ delivered' = << >>
    /\ UNCHANGED <<tableau, players, min_distance, number_of_planets,
                   player_planet_list, planet_list, all_planet_dict, heap,
                   home_planet, rejected_id, created>>

\* one iteration of the loop whose candidate collides: the loop goes on
AttemptReject(c) ==
    /\ pc = "loop"
    /\ Rejected(c)
    /\ LET ref == NewRef
           obj == Planet(c, frame.planet_size, frame.home_player)
       IN  /\ heap' = Rebind(ref, obj)
           /\ home_planet' = set_home_planet(frame.home_player, ref)
           /\ frame' = [frame EXCEPT !.planet = ref]
           /\ rejected_id' = obj.id
    /\ UNCHANGED <<pc, tableau, players, min_distance, number_of_planets,
                   player_planet_list, planet_list, all_planet_dict,
                   delivered, last_op, created>>

\* one iteration whose candidate passes: create_random_planet returns it,
\* create_planet indexes it and the caller appends it to its list
AttemptAccept(c) ==
    /\ pc = "loop"
    /\ ~ Rejected(c)
    /\ LET ref == NewRef
           obj == Planet(c, frame.planet_size, frame.home_player)
           ppl == AppendHome(frame.caller, ref)
           pl  == AppendFree(frame.caller, ref)
       IN  /\ heap' = Rebind(ref, obj)
           /\ home_planet' = set_home_planet(frame.home_player, ref)
           /\ all_planet_dict' = Index(obj.id, ref)
           /\ created' = created \cup {ref}
           /\ player_planet_list' = ppl
           /\ planet_list' = pl
           /\ pc' = NextPhase(players, number_of_planets, ppl, pl)
           /\ last_op' = Op(IF frame.caller = "extra" THEN "create_planet" ELSE "Planets",
                            ref, frame.home_player, "none")
    /\ frame' = NoFrame
    /\ delivered' = << >>
    /\ UNCHANGED <<tableau, players, min_distance, number_of_planets, rejected_id>>

\* the coordinates the two random.randint calls of an iteration can draw
Draws(size) ==
    RandInt(XLo(size), XHi(tableau, size)) \X RandInt(YLo(size), YHi(tableau, size))

Candidates ==
    IF pc = "loop" /\ ~ EmptyRange(frame.planet_size)
    THEN Draws(frame.planet_size)
    ELSE {}

Reject == \E c \in Candidates : AttemptReject(c)

Accept == \E c \in Candidates : AttemptAccept(c)

---------------------------------------------------------------------------
(* Notifications: the BehaviorSubject of a planet *)

\* the planets a caller of the constructed registry can hold
Known == Values(all_planet_dict)

\* number of subscriptions made so far
Subscriptions ==
    LET RECURSIVE Sum(_)
        Sum(S) == IF S = {} THEN 0
                  ELSE LET r == CHOOSE r \in S : TRUE
                       IN  Len(heap[r].observers) + Sum(S \ {r})
    IN  Sum(DOMAIN heap)

\* an observer's on_next(value): the callback sees the planet as it is now
Call(observer, value, h) ==
    [ observer |-> observer, planet |-> value, owner |-> h[value].owner ]

\* a variant that calls the observers last-subscribed first
on_next_Reversed(ref, value, h) ==
    [i \in 1..Len(h[ref].observers) |->
        Call(h[ref].observers[Len(h[ref].observers) + 1 - i], value, h)]

\* BehaviorSubject.on_next(value): cache the value, call every observer in order
on_next(ref, value, h) ==
    [i \in 1..Len(h[ref].observers) |-> Call(h[ref].observers[i], value, h)]

\* a variant on a plain Subject: nothing is delivered on subscription
Subscribe_NoReplay(ref) ==
    /\ pc = "ready"
    /\ ref \in Known
    /\ Subscriptions < MaxSubs
    /\ heap' = [heap EXCEPT ![ref].observers = Append(@, Subscriptions + 1)]
    /\ delivered' = << >>
    /\ last_op' = Op("subscribe", ref, None, "none")
    /\ UNCHANGED <<pc, tableau, players, min_distance, number_of_planets,
                   player_planet_list, planet_list, all_planet_dict,
                   home_planet, frame, rejected_id, created>>

\* Planet.subscribe: the observer is wrapped in a new Observer, appended, and
\* called with the cached value
Subscribe(ref) ==
    /\ pc = "ready"
    /\ ref \in Known
    /\ Subscriptions < MaxSubs
    /\ LET observer == Subscriptions + 1
       IN  /\ heap' = [heap EXCEPT ![ref].observers = Append(@, observer)]
           /\ delivered' = << Call(observer, heap[ref].value, heap) >>
           /\ last_op' = Op("subscribe", ref, None, "none")
    /\ UNCHANGED <<pc, tableau, players, min_distance, number_of_planets,
                   player_planet_list, planet_list, all_planet_dict,
                   home_planet, frame, rejected_id, created>>

\* a variant that reassigns the home player as well
SetOwner_AlsoHome(ref, player) ==
    /\ pc = "ready"
    /\ ref \in Known
    /\ LET h == [heap EXCEPT ![ref].owner = player, ![ref].home_player = player,
                             ![ref].value = ref]
       IN  /\ heap' = h
           /\ delivered' = on_next(ref, ref, h)
           /\ last_op' = Op("set_owner", ref, player, "none")
    /\ UNCHANGED <<pc, tableau, players, min_distance, number_of_planets,
                   player_planet_list, planet_list, all_planet_dict,
                   home_planet, frame, rejected_id, created>>

\* Planet.set_owner
SetOwner(ref, player) ==
    /\ pc = "ready"
    /\ ref \in Known
    /\ LET h == [heap EXCEPT ![ref].owner = player, ![ref].value = ref]
       IN  /\ heap' = h
           /\ delivered' = on_next(ref, ref, h)
           /\ last_op' = Op("set_owner", ref, player, "none")
    /\ UNCHANGED <<pc, tableau, players, min_distance, number_of_planets,
                   player_planet_list, planet_list, all_planet_dict,
                   home_planet, frame, rejected_id, created>>

---------------------------------------------------------------------------
(* Lookup *)

\* a variant on dict.get: an unknown id yields None
get_planet_by_id_Get(planet_id) ==
    IF planet_id \in DOMAIN all_planet_dict
    THEN [ error |-> "none", planet |-> all_planet_dict[planet_id] ]
    ELSE [ error |-> "none", planet |-> NoRef ]

\* Planets.get_planet_by_id: the planet, or the KeyError of the dict
get_planet_by_id(planet_id) ==
    IF planet_id \in DOMAIN all_planet_dict
    THEN [ error |-> "none", planet |-> all_planet_dict[planet_id] ]
    ELSE [ error |-> "KeyError", planet |-> NoRef ]

\* an id no uuid4() call of the model returns
ForeignId == 999

\* the ids a caller may ask for: issued ones, a rejected candidate's, a foreign one
LookupIds == (DOMAIN all_planet_dict \cup {rejected_id, ForeignId}) \ {NoId}

Lookup(planet_id) ==
    /\ pc = "ready"
    /\ LET res == get_planet_by_id(planet_id)
       IN  last_op' = Op("get_planet_by_id", res.planet, None, res.error)
    /\ delivered' = << >>
    /\ UNCHANGED <<pc, tableau, players, min_distance, number_of_planets,
                   player_planet_list, planet_list, all_planet_dict, heap,
                   home_planet, frame, rejected_id, created>>

---------------------------------------------------------------------------

\* construction, placement and lookup
Registry ==
    \/ \E t \in Tableaus, ps \in PlayerLists, n \in 0..MaxPlanets, md \in MinDistances :
          Construct(t, ps, n, md)
    \/ CreateHome
    \/ CreateFree
    \/ \E arg \in SizeArgs, hp \in PlayerNames \cup {None} : CreatePlanet(arg, hp)
    \/ AttemptRaise
    \/ Reject
    \/ Accept
    \/ \E id \in LookupIds : Lookup(id)

\* the notification operations of the planets
Notify ==
    \/ \E ref \in Known : Subscribe(ref)
    \/ \E ref \in Known, player \in PlayerNames : SetOwner(ref, player)

Next == Registry \/ Notify

\* every operation of the program
Spec == Init /\ [][Next]_vars

\* the registry without the notification operations
RegistrySpec == Init /\ [][Registry]_vars

\* the registry under fair scheduling: the single thread keeps running, and a
\* draw that is possible again and again is eventually made
FairSpec ==
    Init /\ [][Registry]_vars /\ WF_vars(Registry) /\ SF_vars(Accept)

---------------------------------------------------------------------------
(* Properties *)

AllPlanets == Range(get_all_planets)

Indexed == Values(all_planet_dict)

\* the constructor has returned and nothing was called on the registry since
JustConstructed == pc = "ready" /\ last_op.op = "Planets"

Separated(r1, r2) ==
    SqDist(heap[r1].coordinate, heap[r2].coordinate) >= min_distance * min_distance

\* C1: after a successful construction every two distinct planets of
\* get_all_planets() are at squared distance >= min_distance^2
C1_ConstructedSeparated ==
    pc = "ready" =>
        \A i, j \in 1..Len(get_all_planets) :
            i # j => Separated(get_all_planets[i], get_all_planets[j])

\* a registry of two planets, built after at least one candidate was rejected
C1_Witness ==
    /\ JustConstructed
    /\ Len(get_all_planets) = 2
    /\ rejected_id # NoId

\* C2: after any sequence of create_planet calls every two distinct planets of
\* the identity index are at distance >= min_distance
C2_IndexSeparated ==
    \A r1, r2 \in Indexed : r1 # r2 => Separated(r1, r2)

\* C3 as claimed: every planet is inset from each edge by at least half its
\* size value, 2 * (x - 0) >= s and 2 * (far.x - x) >= s, same for y
C3_HalfScaleInset ==
    \A r \in Indexed :
        LET s == PlanetSize[heap[r].planet_size]
            c == heap[r].coordinate
        IN  /\ 2 * (c[1] - 0) >= s /\ 2 * (tableau[1] - c[1]) >= s
            /\ 2 * (c[2] - 0) >= s /\ 2 * (tableau[2] - c[2]) >= s

\* C3 as amended: every planet is inset from each edge by at least
\* floor(s / 2), which for MEDIUM = 75 is 37
C3_FloorInset ==
    \A r \in DOMAIN heap :
        LET s == PlanetSize[heap[r].planet_size]
            c == heap[r].coordinate
        IN  /\ c[1] - 0 >= s \div 2 /\ tableau[1] - c[1] >= s \div 2
            /\ c[2] - 0 >= s \div 2 /\ tableau[2] - c[2] >= s \div 2

\* a MEDIUM planet of the registry that sits exactly floor(75 / 2) from an edge
C3_Witness ==
    \E r \in Indexed :
        /\ heap[r].planet_size = "MEDIUM"
        /\ heap[r].coordinate[1] = 37
        /\ tableau[2] - heap[r].coordinate[2] = 37

\* every coordinate random.randint can draw collides with the collision list
Saturated ==
    /\ pc = "loop"
    /\ ~ EmptyRange(frame.planet_size)
    /\ \A x \in RandRange(XLo(frame.planet_size), XHi(tableau, frame.planet_size)),
          y \in RandRange(YLo(frame.planet_size), YHi(tableau, frame.planet_size)) :
            Rejected(<<x, y>>)

\* when every draw the model explores collides, every draw of the full range does
SampledSaturation ==
    (Candidates # {} /\ \A c \in Candidates : Rejected(c)) => Saturated

\* C4: every placement call comes to an end, by returning or by failing
C4_PlacementTerminates == (pc = "loop") ~> (pc # "loop")

\* the loop runs with every coordinate of the inset region colliding
C4_Witness == Saturated /\ frame.planet # NoRef

\* C5: right after construction there is one home planet per player,
\* index-aligned with the shuffled players, MEDIUM, owned by its home player;
\* the free planets have neither owner nor home player
C5_HomePlanets ==
    JustConstructed =>
        /\ Len(player_planet_list) = Len(players)
        /\ \A i \in 1..Len(player_planet_list) :
              LET h == heap[player_planet_list[i]]
              IN  /\ h.home_player = players[i]
                  /\ h.planet_size = "MEDIUM"
                  /\ h.owner = h.home_player
        /\ \A i \in 1..Len(planet_list) :
              /\ heap[planet_list[i]].owner = None
              /\ heap[planet_list[i]].home_player = None

\* two players, placed in the order the shuffle produced
C5_Witness ==
    /\ JustConstructed
    /\ players = <<"Peter", "Aaron">>
    /\ Len(player_planet_list) = 2

\* C6: subscribe calls the new observer exactly once, with the planet and its
\* owner at that moment, and calls nobody else
C6_SubscribeDeliversCurrent ==
    last_op.op = "subscribe" =>
        LET obs == heap[last_op.ref].observers
        IN  delivered = << [ observer |-> obs[Len(obs)],
                             planet   |-> last_op.ref,
                             owner    |-> heap[last_op.ref].owner ] >>

\* a subscription made after the owner of the planet was changed
C6_Witness ==
    /\ last_op.op = "subscribe"
    /\ heap[last_op.ref].owner # None
    /\ heap[last_op.ref].owner # heap[last_op.ref].home_player

\* C7: set_owner(p) sets the owner and calls every observer of the planet
\* exactly once, in subscription order, with owner p; nobody else is called
C7_SetOwnerNotifiesAll ==
    last_op.op = "set_owner" =>
        LET obs == heap[last_op.ref].observers
        IN  /\ heap[last_op.ref].owner = last_op.arg
            /\ Len(delivered) = Len(obs)
            /\ \A i \in 1..Len(obs) :
                  delivered[i] = [ observer |-> obs[i],
                                   planet   |-> last_op.ref,
                                   owner    |-> last_op.arg ]
            /\ \A i, j \in 1..Len(delivered) :
                  i < j => delivered[i].observer < delivered[j].observer

\* set_owner on a planet with two observers
C7_Witness ==
    /\ last_op.op = "set_owner"
    /\ Len(heap[last_op.ref].observers) = 2
    /\ Len(delivered) = 2

\* C8: right after construction get_all_planets() holds P + N planets with
\* pairwise distinct ids, the index holds P + N entries, and
\* get_planet_by_id(e.id) is e for each of them
C8_IndexMatchesConstruction ==
    JustConstructed =>
        /\ Len(get_all_planets) = Len(players) + number_of_planets
        /\ \A i, j \in 1..Len(get_all_planets) :
              i # j => /\ get_all_planets[i] # get_all_planets[j]
                       /\ heap[get_all_planets[i]].id # heap[get_all_planets[j]].id
        /\ Cardinality(DOMAIN all_planet_dict) = Len(players) + number_of_planets
        /\ \A i \in 1..Len(get_all_planets) :
              get_planet_by_id(heap[get_all_planets[i]].id)
                  = [ error |-> "none", planet |-> get_all_planets[i] ]

\* a registry of one home planet and one free planet
C8_Witness ==
    /\ JustConstructed
    /\ Len(players) = 1
    /\ number_of_planets = 1

\* C9: get_all_planets() returns exactly the planets of the identity index
C9_AllPlanetsIsIndex == pc = "ready" => AllPlanets = Indexed

\* the index holds the planets create_planet returned, under their own ids,
\* and no rejected candidate
C10_IndexInv ==
    /\ Indexed = created
    /\ \A i \in DOMAIN all_planet_dict : heap[all_planet_dict[i]].id = i
    /\ rejected_id \notin DOMAIN all_planet_dict
    /\ (pc = "loop" /\ frame.planet # NoRef) =>
          /\ frame.planet \notin Indexed
          /\ heap[frame.planet].id \notin DOMAIN all_planet_dict

\* a step keeps every entry of the index, mapped to the same planet
C10_Kept ==
    \A i \in DOMAIN all_planet_dict :
        /\ i \in DOMAIN all_planet_dict'
        /\ all_planet_dict'[i] = all_planet_dict[i]
        /\ all_planet_dict[i] \in DOMAIN heap'
        /\ heap'[all_planet_dict[i]].id = i

\* C10: the index holds exactly the planets create_planet returned, never a
\* rejected candidate, and an entry once made stays, mapped to the same planet
C10_IndexOnlyGrows == []C10_IndexInv /\ [][C10_Kept]_vars

\* two indexed planets, a rejected candidate behind, and set_owner called since
C10_Witness ==
    /\ Cardinality(DOMAIN all_planet_dict) = 2
    /\ rejected_id # NoId
    /\ last_op.op = "set_owner"

----------------------------------------------------------------------------
(* Failure of construction and of the operations *)

\* the constructor is running: between its home and free loops or inside a
\* placement made for one of them
Building ==
    \/ pc \in {"home", "free"}
    \/ pc = "loop" /\ frame.caller \in {"home", "free"}

\* C11: a construction that was started ends, with the complete registry or
\* with a failure raised to the caller, and never keeps placing forever
C11_ConstructionEnds == Building ~> (pc \in {"ready", "failed"})

\* a constructor that can no longer finish: its free planet finds every
\* sampled coordinate taken
C11_Stuck ==
    /\ Building
    /\ frame.planet # NoRef
    /\ Saturated

\* C12: get_planet_by_id of an id that is not in the index, the id of a
\* rejected candidate included, raises KeyError and changes neither the index,
\* the two lists, any planet nor any player
C12_UnknownIdRaises ==
    [][ \A planet_id \in LookupIds :
          (Lookup(planet_id) /\ planet_id \notin DOMAIN all_planet_dict)
             => /\ last_op'.error = "KeyError"
                /\ last_op'.ref = NoRef
                /\ UNCHANGED <<all_planet_dict, player_planet_list,
                               planet_list, heap, home_planet>> ]_vars

C12_Witness ==
    /\ last_op.op = "get_planet_by_id"
    /\ last_op.error = "KeyError"
    /\ rejected_id # NoId
    /\ rejected_id \notin DOMAIN all_planet_dict
    /\ all_planet_dict # << >>

\* an argument that is not a PlanetSize, or a list with such a member
InvalidSize(arg) ==
    \E i \in 1..Len(arg.items) : arg.items[i] \notin DOMAIN PlanetSize

\* C13: create_planet with an invalid size argument raises ValueError before
\* a size is chosen, a coordinate drawn or a planet built: no call frame is
\* entered and the registry, the planets and the players stay as they were
C13_InvalidSizeRaisesFirst ==
    [][ \A arg \in SizeArgs, home_player \in PlayerNames \cup {None} :
          (CreatePlanet(arg, home_player) /\ InvalidSize(arg))
             => /\ last_op' = Op("create_planet", NoRef, None, "ValueError")
                /\ pc' = "ready"
                /\ UNCHANGED <<frame, heap, all_planet_dict, player_planet_list,
                               planet_list, home_planet, rejected_id,
                               created>> ]_vars

\* on the large tableau no range is empty, so that this ValueError is the
\* one of check_planet_size
C13_Witness ==
    /\ tableau = <<100, 100>>
    /\ pc = "ready"
    /\ last_op = Op("create_planet", NoRef, None, "ValueError")
    /\ all_planet_dict # << >>
    /\ frame = NoFrame

----------------------------------------------------------------------------
(* Order of get_all_planets, the size of a call, the effects of a candidate *)

\* in get_all_planets() no free planet comes before a home planet, and the
\* constructor places no free planet before every player has a home planet
C14_HomesFirst ==
    /\ \A i, j \in 1..Len(get_all_planets) :
          (i < j /\ heap[get_all_planets[j]].home_player # None)
             => heap[get_all_planets[i]].home_player # None
    /\ planet_list # << >> => Len(player_planet_list) = Len(players)

\* a step leaves get_all_planets() as it was or appends the planet it created
C14_Appends ==
    \/ get_all_planets' = get_all_planets
    \/ \E r \in created' \ created : get_all_planets' = Append(get_all_planets, r)

\* C14: get_all_planets() lists the home planets in the order they were
\* placed, then the free planets in the order they were placed; without a
\* creation in between, set_owner included, it returns the same sequence
C14_PlacementOrder == []C14_HomesFirst /\ [][C14_Appends]_vars

C14_Witness ==
    /\ pc = "ready"
    /\ Len(player_planet_list) = 1
    /\ Len(planet_list) = 1
    /\ last_op.op = "set_owner"
    /\ heap[last_op.ref].owner # heap[last_op.ref].home_player

C16_Attempt ==
    (pc = "loop" /\ heap' # heap) =>
        LET new == heap'[NewRef]
            d   == PlanetSize[frame.planet_size] \div 2
        IN  /\ new.planet_size = frame.planet_size
            /\ \E i \in 1..Len(frame.offered) : frame.offered[i] = new.planet_size
            /\ Len(frame.offered) = 1 => new.planet_size = frame.offered[1]
            /\ new.coordinate[1] >= d /\ new.coordinate[1] <= tableau[1] - d
            /\ new.coordinate[2] >= d /\ new.coordinate[2] <= tableau[2] - d
            /\ pc' = "loop" => /\ frame'.planet_size = frame.planet_size
                               /\ frame'.offered = frame.offered

C17_RejectLeavesNoTrace ==
    [][ (pc = "loop" /\ pc' = "loop" /\ heap' # heap)
           => /\ frame'.collision_list = frame.collision_list
              /\ all_planet_dict' = all_planet_dict
              /\ get_all_planets' = get_all_planets
              /\ home_planet' = home_planet ]_vars

\* a player whose home planet is a rejected candidate
C17_HomeIsRejected ==
    /\ pc = "loop"
    /\ frame.caller = "home"
    /\ frame.planet # NoRef
    /\ home_planet[frame.home_player] = frame.planet
    /\ heap[frame.planet].id = rejected_id
    /\ frame.planet \notin Indexed

----------------------------------------------------------------------------
(* What set_owner changes, what check_for_collision decides, whose home *)

\* the fields of a planet that are set at construction
Fixed(obj) == <<obj.id, obj.coordinate, obj.planet_size, obj.home_player>>

\* a step keeps every indexed planet with its id, coordinate, size and home
\* player; the owner of a planet changes only in set_owner of that planet, to
\* the player given, with the owner of every other planet, the players' home
\* planets, the two lists and the index unchanged
C18_Step ==
    \A r \in Indexed :
        /\ r \in DOMAIN heap'
        /\ Fixed(heap'[r]) = Fixed(heap[r])
        /\ heap'[r].owner # heap[r].owner =>
              /\ last_op' = Op("set_owner", r, heap'[r].owner, "none")
              /\ \A q \in Indexed \ {r} : heap'[q].owner = heap[q].owner
              /\ UNCHANGED <<home_planet, player_planet_list, planet_list,
                             all_planet_dict>>

\* C18: set_owner changes the owner of its planet and nothing else of the
\* registry; no operation changes the id, coordinate, size or home player of
\* a planet after its creation
C18_SetOwnerFrame == [][C18_Step]_vars

\* a home planet that was given to the other player
C18_Witness ==
    /\ last_op.op = "set_owner"
    /\ Cardinality(Indexed) = 2
    /\ heap[last_op.ref].home_player # None
    /\ heap[last_op.ref].owner = last_op.arg
    /\ heap[last_op.ref].owner # heap[last_op.ref].home_player
    /\ home_planet[heap[last_op.ref].home_player] = last_op.ref

\* the planets of the collision list closer than min_distance to a coordinate
Near(coordinate) ==
    { r \in Range(frame.collision_list) :
        SqDist(coordinate, heap[r].coordinate) < min_distance * min_distance }

\* C19: an attempt is rejected exactly when some planet of the collision list
\* is at squared distance < min_distance^2 from the candidate: never on an
\* empty list, not at exactly min_distance, whatever the sizes
C19_CollisionIffNear ==
    [][ (pc = "loop" /\ heap' # heap)
           => (pc' = "loop" <=> Near(heap'[NewRef].coordinate) # {}) ]_vars

\* the second planet was accepted at exactly min_distance from the first
C19_Witness ==
    /\ pc = "ready"
    /\ Len(get_all_planets) = 2
    /\ SqDist(heap[get_all_planets[1]].coordinate,
              heap[get_all_planets[2]].coordinate) = min_distance * min_distance

\* C20: when the constructor returns for pairwise distinct players, the home
\* planet of every player is the accepted planet at its position in
\* player_planet_list, indexed under its id, with that player as home player
C20_HomeIsAccepted ==
    (JustConstructed /\ \A i, j \in 1..Len(players) : i # j => players[i] # players[j])
      => \A i \in 1..Len(players) :
            LET r == home_planet[players[i]]
            IN  /\ r = player_planet_list[i]
                /\ r \in DOMAIN heap
                /\ heap[r].id \in DOMAIN all_planet_dict
                /\ all_planet_dict[heap[r].id] = r
                /\ heap[r].home_player = players[i]
                /\ heap[r].id # rejected_id

\* two players, and a candidate for a home planet was rejected on the way
C20_Witness ==
    /\ JustConstructed
    /\ Len(players) = 2
    /\ players[1] # players[2]
    /\ number_of_planets = 0
    /\ rejected_id # NoId

===========================================================================
